---- MODULE Spec2Model ----
(***************************************************************************)
(* State-machine model of the Yahoo Finance MCP server's cache             *)
(* (cache_manager.py) and of the callers that go through it (the tools of  *)
(* server.py, tests/test_pagination.py).  The OrderedDict is a sequence of *)
(* entries, least recently used first.  The statements executed under      *)
(* `with self._lock:` are separate steps of the calling thread, so that    *)
(* atomicity comes from the lock and not from the granularity of the       *)
(* model.                                                                  *)
(***************************************************************************)
EXTENDS Integers, Sequences, FiniteSets, TLC

\* ---------------------------------------------------------------- bounds
MaxTime == 1        \* time.time() runs over 0..MaxTime
MaxGets == 2        \* get calls between two clears (caps hits and misses)
MaxItems == 3       \* rows or keys of a paginated dataset
MaxPasses == 4      \* formatting passes of the sizing loop that are counted

\* ---------------------------------------------------------------- inputs
None == "None"
NoAge == -1
NoOne == 0
\* What callers store: a value (a factory's result) and the ttl given with it.
Inputs == {<<None, 1>>, <<"a", 0>>, <<"b", 1>>}
DataTypes == {"table", "dict"}
\* The max_size a CacheManager is constructed with, single caller.
Capacities == {1, 2}

VARIABLES
  cache,      \* self._cache: sequence of [k, v, ts, ttl], oldest first
  hits,       \* self._hits
  misses,     \* self._misses
  max_size,   \* self._max_size
  lock,       \* self._lock: the thread holding it, or NoOne
  now,        \* time.time()
  th,         \* per calling thread: the call in progress and its locals
  lin,        \* the same calls applied one at a time (sequential reference)
  touched,    \* the keys in the store, least recently touched first
  kb,         \* two calls of _generate_key: their arguments and results
  pg          \* a call of paginate_by_tokens: arguments, locals and result

vars == <<cache, hits, misses, max_size, lock, now, th, lin, touched, kb, pg>>

\* The state of the CacheManager and of its callers.
cvars == <<cache, hits, misses, max_size, lock, now, th, lin, touched>>

\* ------------------------------------------------- OrderedDict operations
Has(c, k) == \E i \in 1..Len(c) : c[i].k = k

IndexOf(c, k) == CHOOSE i \in 1..Len(c) : c[i].k = k

NoEntry == [k |-> 0, v |-> None, ts |-> 0, ttl |-> 0]

Entry(c, k) == IF Has(c, k) THEN c[IndexOf(c, k)] ELSE NoEntry

Remove(c, k) == SelectSeq(c, LAMBDA e : e.k # k)

\* OrderedDict.move_to_end(key)
MoveToFront(c, k) == IF Has(c, k) THEN <<Entry(c, k)>> \o Remove(c, k) ELSE c
move_to_end(c, k) == IF Has(c, k) THEN Append(Remove(c, k), Entry(c, k)) ELSE c

\* OrderedDict.popitem(last=False)
PopNewest(c) == IF Len(c) = 0 THEN c ELSE SubSeq(c, 1, Len(c) - 1)
popitem(c) == IF Len(c) = 0 THEN c ELSE Tail(c)

\* self._cache[key] = entry: in place when the key exists, appended otherwise
setitem(c, k, e) ==
  IF Has(c, k) THEN [c EXCEPT ![IndexOf(c, k)] = e] ELSE Append(c, e)

\* ------------------------------------------------------ CacheManager code
\* get, line 56: time.time() - timestamp > ttl
ExpiredAtTtl(e, t) == t - e.ts >= e.ttl
Expired(e, t) == t - e.ts > e.ttl

\* set, lines 76-77
EvictNever(c, max, k) == c
EvictWhenFull(c, max, k) == IF Len(c) >= max THEN popitem(c) ELSE c
EvictExpiredFirst(c, max, k) ==
  IF Len(c) >= max /\ ~Has(c, k)
    THEN IF \E i \in 1..Len(c) : Expired(c[i], now)
           THEN Remove(c, c[CHOOSE i \in 1..Len(c) : Expired(c[i], now)].k)
           ELSE popitem(c)
    ELSE c
EvictIfFull(c, max, k) ==
  IF Len(c) >= max /\ ~Has(c, k) THEN popitem(c) ELSE c

\* set, line 79
StoreFirstWins(c, k, v, t, ttl) ==
  IF Has(c, k) THEN c
  ELSE Append(c, [k |-> k, v |-> v, ts |-> t, ttl |-> ttl])
StoreKeepTimestamp(c, k, v, t, ttl) ==
  setitem(c, k, [k |-> k, v |-> v,
                 ts |-> IF Has(c, k) THEN Entry(c, k).ts ELSE t, ttl |-> ttl])
Store(c, k, v, t, ttl) == setitem(c, k, [k |-> k, v |-> v, ts |-> t, ttl |-> ttl])

\* get_age, lines 112-115
AgeOfLive(c, k, t) ==
  IF Has(c, k) /\ ~Expired(Entry(c, k), t) THEN t - Entry(c, k).ts ELSE NoAge
get_age(c, k, t) == IF Has(c, k) THEN t - Entry(c, k).ts ELSE NoAge

\* get_stats, lines 131-132 and 138: hit_rate as f"{hit_rate:.2%}" prints it,
\* in hundredths of a percent, rounded to the nearest.
MissRate(h, m) ==
  IF h + m > 0 THEN (20000 * m + (h + m)) \div (2 * (h + m)) ELSE 0
HitRate(h, m) ==
  IF h + m > 0 THEN (20000 * h + (h + m)) \div (2 * (h + m)) ELSE 0

\* get_stats, lines 131-140: size, hits, misses, hit_rate
get_stats(c, h, m) == <<Len(c), h, m, HitRate(h, m)>>

\* ---------------------------------------------------- sequential reference
\* Each public method run to completion on a state [cache, hits, misses].
SeqGet(s, k, t) ==
  IF ~Has(s.cache, k)
    THEN [s EXCEPT !.misses = @ + 1, !.val = None]
    ELSE IF Expired(Entry(s.cache, k), t)
      THEN [s EXCEPT !.cache = Remove(@, k), !.misses = @ + 1, !.val = None]
      ELSE [s EXCEPT !.cache = move_to_end(@, k), !.hits = @ + 1,
                     !.val = Entry(s.cache, k).v]

SeqSet(s, max, k, v, t, ttl) ==
  [s EXCEPT !.cache = move_to_end(Store(EvictIfFull(@, max, k), k, v, t, ttl), k)]

SeqClear(s) == [s EXCEPT !.cache = <<>>, !.hits = 0, !.misses = 0]

SeqAge(s, k, t) == [s EXCEPT !.age = get_age(s.cache, k, t)]

SeqStats(s) == [s EXCEPT !.stats = get_stats(s.cache, s.hits, s.misses)]

\* ----------------------------------------------------------- _generate_key
\* Strings are sequences of characters.  Code is ord().
Code(ch) ==
  CASE ch = "0" -> 48 [] ch = "1" -> 49 [] ch = "2" -> 50 [] ch = "3" -> 51
    [] ch = "4" -> 52 [] ch = "5" -> 53 [] ch = "6" -> 54 [] ch = "7" -> 55
    [] ch = "8" -> 56 [] ch = "9" -> 57 [] ch = ":" -> 58 [] ch = "=" -> 61
    [] ch = "_" -> 95 [] ch = "a" -> 97 [] ch = "b" -> 98 [] ch = "f" -> 102
    [] ch = "g" -> 103 [] OTHER -> 0

\* str < str
RECURSIVE StrLess(_, _)
StrLess(a, b) ==
  IF b = <<>> THEN FALSE
  ELSE IF a = <<>> THEN TRUE
  ELSE IF Head(a) = Head(b) THEN StrLess(Tail(a), Tail(b))
  ELSE Code(Head(a)) < Code(Head(b))

Digit(n) == <<"0", "1", "2", "3", "4", "5", "6", "7", "8", "9">>[n + 1]

\* str(n) of an int n >= 0
RECURSIVE StrInt(_)
StrInt(n) == IF n < 10 THEN <<Digit(n)>> ELSE StrInt(n \div 10) \o <<Digit(n % 10)>>

\* Line 36: f"{k}={v}" formats v with str(v); v is an int or a str.
IntVal(n) == [t |-> "int", n |-> n, s |-> <<>>]
StrVal(s) == [t |-> "str", n |-> 0, s |-> s]
Str(v) == IF v.t = "int" THEN StrInt(v.n) ELSE v.s

\* Line 35: sorted(kwargs.items()).  The names of a dict are distinct, so
\* the (name, value) tuples are ordered by name.
RECURSIVE Insert(_, _)
Insert(s, x) ==
  IF s = <<>> THEN <<x>>
  ELSE IF StrLess(x[1], Head(s)[1]) THEN <<x>> \o s
  ELSE <<Head(s)>> \o Insert(Tail(s), x)

Unsorted(kw) == kw
RECURSIVE sorted(_)
sorted(kw) ==
  IF kw = <<>> THEN <<>>
  ELSE Insert(sorted(SubSeq(kw, 1, Len(kw) - 1)), kw[Len(kw)])

\* Line 36: "_".join(f"{k}={v}" for k, v in sorted_args)
RECURSIVE JoinArgs(_)
JoinArgs(items) ==
  IF items = <<>> THEN <<>>
  ELSE LET item == Head(items)[1] \o <<"=">> \o Str(Head(items)[2])
       IN IF Len(items) = 1 THEN item
          ELSE item \o <<"_">> \o JoinArgs(Tail(items))

\* Lines 34-37
generate_key(func_name, kwargs) ==
  func_name \o <<":">> \o JoinArgs(sorted(kwargs))

\* The calls checked: a function name and keyword arguments in the order
\* the caller wrote them.
FuncNames == {<<"f">>, <<"g">>}
ArgNames == {<<"a">>, <<"b">>}
ArgValues ==
  {IntVal(1), StrVal(<<"1">>), StrVal(<<"2">>),
   StrVal(<<"1", "_", "b", "=", "2">>)}
Kwargs ==
  {<<>>} \cup {<<<<n, v>>>> : n \in ArgNames, v \in ArgValues}
         \cup {kw \in {<<<<n, v>>, <<m, w>>>> :
                         n \in ArgNames, m \in ArgNames, v \in ArgValues,
                         w \in ArgValues} : kw[1][1] # kw[2][1]}

KbIdle ==
  [pc |-> "idle", f1 |-> <<>>, a1 |-> <<>>, f2 |-> <<>>, a2 |-> <<>>,
   k1 |-> <<>>, k2 |-> <<>>]

\* ------------------------------------------------------------- pagination
\* Texts are modelled by their length in characters, which is all that
\* estimate_tokens reads.  A dataset is a sequence of items, each given by
\* the length of the string form of its values:
\*   table  ncols columns with names of cname characters; in row i every
\*          value has items[i] characters
\*   list   a list of dicts with the same fields as the rows of a table
\*   dict   keys of cname characters; the value of key i has items[i]
\*          characters
\*   other  any other object (a str, a number, None), which has no items
overhead_tokens == 500
pair_tokens == 50
max_col_width == 15
RulerLen == 70
TitleLen == 9

Impls == {"fixed", "adaptive"}
NCols == {1, 100}
ValueLens == {1, 150, 4000}
MaxTokens == {-100, 0, 100, 600, 1500, 6000}
Pages == {-1, 0, 1000000} \cup (1..MaxItems)
\* cache_age in tenths of a second, or NoAge
CacheAges == {NoAge, 0, 305}

ItemSeqs == UNION {[1..n -> ValueLens] : n \in 0..MaxItems}
Datasets ==
  {[kind |-> k, ncols |-> c, cname |-> 1, items |-> s] :
     k \in {"table", "list"}, c \in NCols, s \in ItemSeqs}
  \cup {[kind |-> "dict", ncols |-> 1, cname |-> 1, items |-> s] :
          s \in ItemSeqs}
  \cup {[kind |-> "other", ncols |-> 1, cname |-> 1, items |-> <<>>]}

Max(a, b) == IF a >= b THEN a ELSE b
Min(a, b) == IF a <= b THEN a ELSE b

\* a // b for b > 0
FloorDiv(a, b) == IF a >= 0 THEN a \div b ELSE -((b - a - 1) \div b)

\* estimate_tokens of a text of n characters
estimate_tokens(n) == n \div 4

\* len(str(n)), len(f"{n:,}")
RECURSIVE Digits(_)
Digits(n) == IF n < 10 THEN 1 ELSE 1 + Digits(n \div 10)
NumLen(n) == IF n < 0 THEN 1 + Digits(-n) ELSE Digits(n)
CommaLen(n) ==
  CHOOSE r \in {NumLen(v) + (Digits(IF v < 0 THEN -v ELSE v) - 1) \div 3 :
                  v \in {n}} : TRUE

RECURSIVE SumTo(_, _)
SumTo(s, i) == IF i = 0 THEN 0 ELSE s[i] + SumTo(s, i - 1)
SeqSum(s) == SumTo(s, Len(s))
RECURSIVE SeqMax(_)
SeqMax(s) == IF s = <<>> THEN 0 ELSE Max(Head(s), SeqMax(Tail(s)))

\* "\n".join(lines)
JoinLen(lines) ==
  CHOOSE r \in {SeqSum(s) + Max(Len(s) - 1, 0) : s \in {lines}} : TRUE

\* s[a:b] for a, b >= 0
Slice(s, a, b) ==
  IF a >= b \/ a >= Len(s) \/ b <= 0 THEN <<>>
  ELSE SubSeq(s, Max(a, 0) + 1, Min(b, Len(s)))

\* pagination_utils.py format_dataframe_as_table, lines 60-93: each column
\* is as wide as its name or its longest value on the page, at most
\* max_col_width; longer values are cut to the width.
FixedTableLen(d, rows) ==
  IF rows = <<>> THEN 17
  ELSE LET w == Min(Max(d.cname, SeqMax(rows)), max_col_width)
           W == d.ncols * w + 3 * (d.ncols - 1)
       IN (Len(rows) + 2) * W + Len(rows) + 1

\* yfin_mcp/pagination_utils.py format_dataframe_as_table, lines 48-78:
\* every cell is padded or cut to max_col_width.
AdaptiveTableLen(d, rows) ==
  IF rows = <<>> THEN 17
  ELSE LET W == d.ncols * max_col_width + 3 * (d.ncols - 1)
       IN (Len(rows) + 2) * W + Len(rows) + 1

\* format_dict_as_text: one "key: value" line per key
DictTextLen(d, rows) ==
  JoinLen([i \in 1..Len(rows) |-> d.cname + 2 + rows[i]])

\* yfin_mcp line 166: "\n".join(str(item) for item in test_items), the
\* items being dicts of ncols str values
ListTextLen(d, rows) ==
  JoinLen([i \in 1..Len(rows) |->
             2 + d.ncols * (d.cname + rows[i] + 6) + 2 * (d.ncols - 1)])

\* The formatted content of the given items
ContentLen(impl, d, rows) ==
  IF impl = "fixed"
    THEN IF d.kind = "dict" THEN DictTextLen(d, rows)
         ELSE FixedTableLen(d, rows)
    ELSE CASE d.kind = "table" -> AdaptiveTableLen(d, rows)
           [] d.kind = "dict" -> DictTextLen(d, rows)
           [] OTHER -> ListTextLen(d, rows)

\* pagination_utils.py lines 164-172 and 258-262
FixedItemsPerPage(d, max_tokens) ==
  LET available_tokens == max_tokens - overhead_tokens
      tokens_per_row ==
        estimate_tokens(FixedTableLen(d, Slice(d.items, 0, 1)))
  IN IF d.kind = "dict"
       THEN Max(1, FloorDiv(available_tokens, pair_tokens))
       ELSE Max(1, FloorDiv(available_tokens, Max(tokens_per_row, 1)))

\* yfin_mcp line 169: estimate_tokens(test_text) <= max_tokens * 0.8
UnderMargin(impl, d, n, max_tokens) ==
  10 * estimate_tokens(ContentLen(impl, d, Slice(d.items, 0, n)))
    <= 8 * max_tokens

\* Lines 175-176 (both files)
TotalPagesFloor(total_items, items_per_page) == total_items \div items_per_page
TotalPagesPlusOne(total_items, items_per_page) ==
  total_items \div items_per_page + 1
TotalPages(total_items, items_per_page) ==
  (total_items + items_per_page - 1) \div items_per_page
ClampAbove(page, total_pages) == Min(page, total_pages)
Clamp(page, total_pages) == Max(1, Min(page, total_pages))

\* f"{cache_age:.0f}" rounds half to even; f"{cache_age:.1f}" of tenths
RoundedAge(a) ==
  LET q == a \div 10
      r == a % 10
  IN IF r < 5 THEN q ELSE IF r > 5 THEN q + 1
     ELSE IF q % 2 = 0 THEN q ELSE q + 1

\* The cache line: what it says, the age it shows (in tenths) and its length
NoLine == [kind |-> "none", shown |-> 0, len |-> 0]
FreshLine == [kind |-> "fresh", shown |-> 0, len |-> 32]
CachedLine(shown, n) == [kind |-> "cached", shown |-> shown, len |-> 36 + n]
CacheInfo(impl, kind, age) ==
  IF impl = "fixed"
    THEN IF age # NoAge
           THEN CachedLine(10 * RoundedAge(age), NumLen(RoundedAge(age)))
           ELSE IF kind = "dict" THEN NoLine ELSE FreshLine
    ELSE IF age # NoAge
           THEN IF age = 0 THEN FreshLine
                ELSE CachedLine(age, NumLen(age \div 10) + 2)
           ELSE NoLine

\* The footer line "PAGE p of n | Showing items a-b of t total"
PageLineLen(page, total_pages, start_idx, end_idx, total_items) ==
  39 + NumLen(page) + NumLen(total_pages) + NumLen(start_idx + 1)
     + NumLen(end_idx) + NumLen(total_items)

\* Which navigation lines the page carries
NavOf(impl, kind, page, total_pages) ==
  IF impl = "fixed"
    THEN IF kind = "dict"
           THEN [header |-> FALSE, next |-> FALSE, prev |-> FALSE]
           ELSE [header |-> TRUE, next |-> page < total_pages,
                 prev |-> page > 1]
    ELSE [header |-> total_pages > 1,
          next |-> total_pages > 1 /\ page < total_pages,
          prev |-> total_pages > 1 /\ page > 1]

\* The lines of the navigation block
NavLines(impl, nav, page, start_idx, end_idx, ipp, total_items) ==
  IF ~nav.header THEN <<>>
  ELSE <<13>>
       \o (IF nav.next
             THEN <<38 + NumLen(page + 1) + NumLen(end_idx + 1) + 1
                       + NumLen(Min(end_idx + ipp, total_items))>>
             ELSE <<>>)
       \o (IF nav.prev
             THEN IF impl = "fixed"
                    THEN <<42 + NumLen(page - 1)
                              + NumLen(Max(1, start_idx - ipp + 1)) + 1
                              + NumLen(start_idx)>>
                    ELSE <<28 + NumLen(page - 1)>>
             ELSE <<>>)
       \o <<50>>
       \o (IF impl = "fixed" THEN <<>> ELSE <<0>>)

\* len(formatted_text): pagination_utils.py lines 188-229 and 275-296,
\* yfin_mcp lines 194-227
TextLen(impl, d, max_tokens, age, page, total_pages, start_idx, end_idx, ipp) ==
  LET total_items == Len(d.items)
      content == ContentLen(impl, d, Slice(d.items, start_idx, end_idx))
      pageline == PageLineLen(page, total_pages, start_idx, end_idx,
                              total_items)
      head == <<RulerLen, 2 + TitleLen, RulerLen, 0, content, 0, RulerLen,
                pageline>>
      nav == NavLines(impl, NavOf(impl, d.kind, page, total_pages), page,
                      start_idx, end_idx, ipp, total_items)
      info == CacheInfo(impl, d.kind, age)
      cache_line == IF info.kind = "none" THEN <<>> ELSE <<info.len>>
  IN IF impl = "fixed"
       THEN LET token_count == estimate_tokens(JoinLen(head))
                tokline == 27 + CommaLen(token_count) + CommaLen(max_tokens)
            IN IF d.kind = "dict"
                 THEN JoinLen(head \o <<tokline, RulerLen>> \o cache_line
                                \o <<RulerLen>>)
                 ELSE JoinLen(head \o <<tokline, RulerLen, 0>> \o nav \o <<0>>
                                \o cache_line \o <<RulerLen>>)
       ELSE LET tokline == 27 + NumLen(estimate_tokens(content))
                              + NumLen(max_tokens)
            IN JoinLen(head \o <<tokline, RulerLen, 0>> \o nav \o cache_line
                         \o <<RulerLen>>)

\* PaginationResult; marker says that the text is the "No data available"
\* page, footer holds the numbers a, b, t of "Showing items a-b of t total".
NoResult ==
  [page |-> 0, total_pages |-> 0, total_items |-> 0, items_on_page |-> 0,
   start_idx |-> 0, end_idx |-> 0, text_len |-> 0, marker |-> FALSE,
   footer |-> <<0, 0, 0>>,
   nav |-> [header |-> FALSE, next |-> FALSE, prev |-> FALSE],
   cache_line |-> NoLine]

\* pagination_utils.py _create_empty_result, lines 308-327; yfin_mcp lines
\* 142-149
EmptyNoPages(impl) ==
  [NoResult EXCEPT !.page = 1, !.marker = TRUE,
                   !.text_len = IF impl = "fixed" THEN 226 + TitleLen ELSE 17]
EmptyResult(impl) ==
  [NoResult EXCEPT !.page = 1, !.total_pages = 1, !.marker = TRUE,
                   !.text_len = IF impl = "fixed" THEN 226 + TitleLen ELSE 17]

PgIdle ==
  [pc |-> "idle", impl |-> "none",
   data |-> [kind |-> "none", ncols |-> 0, cname |-> 0, items |-> <<>>],
   req |-> 0, page |-> 0, max_tokens |-> 0, cache_age |-> NoAge,
   items_per_page |-> 0,
   passes |-> 0, total_pages |-> 0, start_idx |-> 0, end_idx |-> 0,
   res |-> NoResult, walk |-> <<>>]

\* ------------------------------------------------------------ thread state
NoPre == [cache |-> <<>>, hits |-> 0, misses |-> 0]

\* src is the timestamp of the entry that the value a tool renders came
\* from: the entry its get read or the entry its set stored.
Idle ==
  [op |-> "none", pc |-> "idle", key |-> 0, val |-> None, ttl |-> 0, tmp |-> 0,
   cached |-> FALSE, age |-> NoAge, stats |-> <<0, 0, 0, 0>>, line |-> "none",
   dirty |-> FALSE, round |-> 0, fac |-> None, val1 |-> None,
   cached1 |-> FALSE, ncalls |-> 0, pre |-> NoPre, tr |-> 0, res |-> "none",
   src |-> NoAge]

\* Entering a method under the lock: the state the call starts from.
Enter(r) ==
  [r EXCEPT !.pre = [cache |-> cache, hits |-> hits, misses |-> misses]]

\* Leaving the method: its locals are gone.
Leave(r) == [r EXCEPT !.pre = NoPre, !.tr = 0, !.res = "none", !.tmp = 0]

LinInit ==
  [cache |-> <<>>, hits |-> 0, misses |-> 0, gets |-> 0, nhit |-> 0, last |-> {},
   val |-> None, age |-> NoAge, stats |-> <<0, 0, 0, 0>>]

Threads == DOMAIN th
Keys == 1..(max_size + 1)
pc(p) == th[p].pc

\* The pcs between the miss of a get_or_set and the end of its set.
MissPath == {"gos_factory", "gos_raised", "set_lock", "set_evict", "set_store",
             "set_move", "set_ret"}

\* with self._lock:
AcquireUnguarded(p) == lock' = p
Acquire(p) == lock = NoOne /\ lock' = p

Release(p) == lock' = NoOne

Goto(p, r) == th' = [th EXCEPT ![p] = r]

\* One caller, every capacity.
Init ==
  /\ max_size \in Capacities
  /\ th = [p \in {1} |-> Idle]
  /\ cache = <<>>
  /\ hits = 0
  /\ misses = 0
  /\ lock = NoOne
  /\ now = 0
  /\ lin = LinInit
  /\ touched = <<>>
  /\ kb = KbIdle
  /\ pg = PgIdle

\* Two callers sharing a cache of capacity 1.
InitConc ==
  /\ max_size = 1
  /\ th = [p \in {1, 2} |-> Idle]
  /\ cache = <<>>
  /\ hits = 0
  /\ misses = 0
  /\ lock = NoOne
  /\ now = 0
  /\ lin = LinInit
  /\ touched = <<>>
  /\ kb = KbIdle
  /\ pg = PgIdle

\* time.time() advances
Tick ==
  /\ now < MaxTime
  /\ now' = now + 1
  /\ UNCHANGED <<cache, hits, misses, max_size, lock, th, lin, touched>>

\* ------------------------------------------------------------ get_or_set
\* What get_or_set hands back to its caller (lines 95 and 100), and where
\* that caller goes next: a plain caller is done; a tool of server.py tests
\* the value (line 210) and asks for the cache age (line 225); test_cache
\* (tests/test_pagination.py lines 47-51) calls get_or_set a second time.
AfterGos(r, was_cached) ==
  CASE r.op = "get_or_set" -> Idle
    [] r.op = "tool" ->
         IF r.val = None
           THEN [r EXCEPT !.pc = "tool_ret", !.cached = was_cached,
                          !.line = "not_found"]
           ELSE [r EXCEPT !.pc = "age_lock", !.cached = was_cached]
    [] OTHER ->
         IF r.round = 1
           THEN [r EXCEPT !.pc = "get_lock", !.round = 2, !.val1 = r.val,
                          !.cached1 = was_cached, !.val = None, !.dirty = FALSE]
           ELSE [r EXCEPT !.pc = "test_ret", !.cached = was_cached]

\* ------------------------------------------------------------------- get
\* A caller enters get(key) and takes the lock (line 48).
GetCall(p, k) ==
  /\ pc(p) = "idle"
  /\ lin.gets < MaxGets
  /\ Acquire(p)
  /\ Goto(p, Enter([Idle EXCEPT !.op = "get", !.pc = "get_check", !.key = k]))
  /\ UNCHANGED <<cache, hits, misses, max_size, now, lin, touched>>

\* The get inside the second get_or_set of test_cache takes the lock.
GetAcquire(p) ==
  /\ pc(p) = "get_lock"
  /\ lin.gets < MaxGets
  /\ Acquire(p)
  /\ Goto(p, Enter([th[p] EXCEPT !.pc = "get_check"]))
  /\ UNCHANGED <<cache, hits, misses, max_size, now, lin, touched>>

\* Lines 49-56: membership test, read of the entry, expiry test.
GetCheck(p) ==
  /\ pc(p) = "get_check"
  /\ LET k == th[p].key
         e == Entry(cache, k)
     IN /\ Goto(p, IF ~Has(cache, k)
                     THEN [th[p] EXCEPT !.pc = "get_miss_ld", !.res = "absent"]
                   ELSE IF Expired(e, now)
                     THEN [th[p] EXCEPT !.pc = "get_del", !.res = "expired",
                                        !.tr = now]
                   ELSE [th[p] EXCEPT !.pc = "get_touch", !.res = "hit",
                                      !.tr = now, !.val = e.v,
                                      !.src = IF th[p].op = "tool" THEN e.ts
                                              ELSE @])
        /\ lin' = SeqGet(lin, k, now)
  /\ UNCHANGED <<cache, hits, misses, max_size, lock, now, touched>>

\* Line 57: del self._cache[key]
GetDel(p) ==
  /\ pc(p) = "get_del"
  /\ cache' = Remove(cache, th[p].key)
  /\ Goto(p, [th[p] EXCEPT !.pc = "get_miss_ld"])
  /\ UNCHANGED <<hits, misses, max_size, lock, now, lin, touched>>

\* Lines 50 and 58: self._misses += 1, the load
GetMissLoad(p) ==
  /\ pc(p) = "get_miss_ld"
  /\ Goto(p, [th[p] EXCEPT !.pc = "get_miss_st", !.tmp = misses])
  /\ UNCHANGED <<cache, hits, misses, max_size, lock, now, lin, touched>>

\* Lines 50-51 and 58-59: self._misses += 1, the store; return None
GetMissStore(p) ==
  /\ pc(p) = "get_miss_st"
  /\ misses' = th[p].tmp + 1
  /\ Goto(p, [th[p] EXCEPT !.pc = "get_ret", !.tmp = 0, !.val = None])
  /\ UNCHANGED <<cache, hits, max_size, lock, now, lin, touched>>

\* Line 62: self._cache.move_to_end(key)
GetTouch(p) ==
  /\ pc(p) = "get_touch"
  /\ cache' = move_to_end(cache, th[p].key)
  /\ Goto(p, [th[p] EXCEPT !.pc = "get_hit_ld"])
  /\ UNCHANGED <<hits, misses, max_size, lock, now, lin, touched>>

\* Line 63: self._hits += 1, the load
GetHitLoad(p) ==
  /\ pc(p) = "get_hit_ld"
  /\ Goto(p, [th[p] EXCEPT !.pc = "get_hit_st", !.tmp = hits])
  /\ UNCHANGED <<cache, hits, misses, max_size, lock, now, lin, touched>>

\* Lines 63-64: self._hits += 1, the store; return value
GetHitStore(p) ==
  /\ pc(p) = "get_hit_st"
  /\ hits' = th[p].tmp + 1
  /\ Goto(p, [th[p] EXCEPT !.pc = "get_ret", !.tmp = 0])
  /\ UNCHANGED <<cache, misses, max_size, lock, now, lin, touched>>

\* get returns and the lock is released.  Inside get_or_set, line 94 decides
\* between returning (cached_value, True) and calling the factory.
GetRetHolding(p) ==
  /\ pc(p) = "get_ret"
  /\ lock' = IF th[p].op = "get" \/ th[p].val # None THEN NoOne ELSE p
  /\ lin' = [lin EXCEPT !.gets = @ + 1, !.val = None,
                       !.nhit = IF th[p].res = "hit" THEN @ + 1 ELSE @]
  /\ Goto(p, IF th[p].op = "get" THEN Idle
             ELSE IF th[p].val # None THEN AfterGos(Leave(th[p]), TRUE)
             ELSE [Leave(th[p]) EXCEPT !.pc = "gos_factory", !.dirty = FALSE])
  /\ UNCHANGED <<cache, hits, misses, max_size, now, touched>>
GetRetByResult(p) ==
  /\ pc(p) = "get_ret"
  /\ Release(p)
  /\ lin' = [lin EXCEPT !.gets = @ + 1, !.val = None,
                       !.nhit = IF th[p].res = "hit" THEN @ + 1 ELSE @]
  /\ Goto(p, IF th[p].op = "get" THEN Idle
             ELSE IF th[p].res = "hit" THEN AfterGos(Leave(th[p]), TRUE)
             ELSE [Leave(th[p]) EXCEPT !.pc = "gos_factory", !.dirty = FALSE])
  /\ UNCHANGED <<cache, hits, misses, max_size, now, touched>>
GetRet(p) ==
  /\ pc(p) = "get_ret"
  /\ Release(p)
  /\ lin' = [lin EXCEPT !.gets = @ + 1, !.val = None,
                       !.nhit = IF th[p].res = "hit" THEN @ + 1 ELSE @,
                       !.last = IF th[p].res = "expired"
                                  THEN {x \in @ : x.k # th[p].key} ELSE @]
  /\ touched' = CASE th[p].res = "hit" ->
                      Append(SelectSeq(touched, LAMBDA x : x # th[p].key),
                             th[p].key)
                  [] th[p].res = "expired" ->
                      SelectSeq(touched, LAMBDA x : x # th[p].key)
                  [] OTHER -> touched
  /\ Goto(p, IF th[p].op = "get" THEN Idle
             ELSE IF th[p].val # None THEN AfterGos(Leave(th[p]), TRUE)
             ELSE [Leave(th[p]) EXCEPT !.pc = "gos_factory", !.dirty = FALSE])
  /\ UNCHANGED <<cache, hits, misses, max_size, now>>

\* ------------------------------------------------------------------- set
SetCall(p, k, w) ==
  /\ pc(p) = "idle"
  /\ Acquire(p)
  /\ Goto(p, Enter([Idle EXCEPT !.op = "set", !.pc = "set_evict", !.key = k,
                          !.val = w[1], !.ttl = w[2]]))
  /\ UNCHANGED <<cache, hits, misses, max_size, now, lin, touched>>

\* The set of get_or_set (line 99) takes the lock.
SetAcquire(p) ==
  /\ pc(p) = "set_lock"
  /\ Acquire(p)
  /\ Goto(p, Enter([th[p] EXCEPT !.pc = "set_evict"]))
  /\ UNCHANGED <<cache, hits, misses, max_size, now, lin, touched>>

\* Lines 76-77
SetEvict(p) ==
  /\ pc(p) = "set_evict"
  /\ cache' = EvictIfFull(cache, max_size, th[p].key)
  /\ lin' = [lin EXCEPT !.last = {x \in @ : Has(cache', x.k)}]
  /\ Goto(p, [th[p] EXCEPT !.pc = "set_store"])
  /\ UNCHANGED <<hits, misses, max_size, lock, now, touched>>

\* Line 79.  Every other caller that missed on this key has now been raced.
SetStore(p) ==
  /\ pc(p) = "set_store"
  /\ LET k == th[p].key
     IN /\ cache' = Store(cache, k, th[p].val, now, th[p].ttl)
        /\ lin' = SeqSet(lin, max_size, k, th[p].val, now, th[p].ttl)
        /\ th' = [r \in Threads |->
                    IF r = p
                      THEN [th[p] EXCEPT !.pc = "set_move", !.tr = now,
                                         !.src = IF th[p].op = "tool" THEN now
                                                 ELSE @]
                    ELSE IF th[r].key = k /\ th[r].pc \in MissPath
                                          /\ th[r].op # "set"
                      THEN [th[r] EXCEPT !.dirty = TRUE]
                      ELSE th[r]]
  /\ UNCHANGED <<hits, misses, max_size, lock, now, touched>>

\* Line 80
SetMove(p) ==
  /\ pc(p) = "set_move"
  /\ cache' = move_to_end(cache, th[p].key)
  /\ Goto(p, [th[p] EXCEPT !.pc = "set_ret"])
  /\ UNCHANGED <<hits, misses, max_size, lock, now, lin, touched>>

\* set returns and the lock is released; get_or_set returns (value, False).
SetRet(p) ==
  /\ pc(p) = "set_ret"
  /\ Release(p)
  /\ touched' = Append(SelectSeq(touched, LAMBDA x : x # th[p].key
                                                    /\ Has(cache, x)),
                       th[p].key)
  /\ lin' = [lin EXCEPT !.last =
                {x \in @ : x.k # th[p].key} \cup
                {[k |-> th[p].key, v |-> th[p].val, ts |-> th[p].tr,
                  ttl |-> th[p].ttl]}]
  /\ Goto(p, IF th[p].op = "set" THEN Idle ELSE AfterGos(Leave(th[p]), FALSE))
  /\ UNCHANGED <<cache, hits, misses, max_size, now>>

\* ------------------------------------------------------------ get_or_set
\* Line 93: get_or_set(key, factory_func, ttl_seconds) starts with
\* self.get(key).  ttl_seconds is not read before line 99, so the model
\* draws it together with the factory's result.
GosCall(p, k) ==
  /\ pc(p) = "idle"
  /\ lin.gets < MaxGets
  /\ Acquire(p)
  /\ Goto(p, Enter([Idle EXCEPT !.op = "get_or_set", !.pc = "get_check", !.key = k]))
  /\ UNCHANGED <<cache, hits, misses, max_size, now, lin, touched>>

\* Line 98: factory_func() returns w[1]; the lock is not held meanwhile.
\* test_cache passes the same factory and ttl to both of its calls.
FactoryReturn(p, w) ==
  /\ pc(p) = "gos_factory"
  /\ th[p].op = "test" => w = <<th[p].fac, th[p].ttl>>
  /\ Goto(p, [th[p] EXCEPT !.pc = "set_lock", !.val = w[1], !.ttl = w[2],
                           !.ncalls = @ + 1])
  /\ UNCHANGED <<cache, hits, misses, max_size, lock, now, lin, touched>>

\* Line 98: factory_func() raises.
FactoryRaiseCaches(p) ==
  /\ pc(p) = "gos_factory"
  /\ cache' = Store(cache, th[p].key, "a", now, 1)
  /\ Goto(p, [th[p] EXCEPT !.pc = "gos_raised", !.ncalls = @ + 1])
  /\ UNCHANGED <<hits, misses, max_size, lock, now, lin, touched>>
FactoryRaise(p) ==
  /\ pc(p) = "gos_factory"
  /\ Goto(p, [th[p] EXCEPT !.pc = "gos_raised", !.ncalls = @ + 1])
  /\ UNCHANGED <<cache, hits, misses, max_size, lock, now, lin, touched>>

\* The exception leaves get_or_set and its caller: line 99 is not reached.
GosPropagate(p) ==
  /\ pc(p) = "gos_raised"
  /\ Goto(p, Idle)
  /\ UNCHANGED <<cache, hits, misses, max_size, lock, now, lin, touched>>

\* --------------------------------------------------------------- get_age
AgeCall(p, k) ==
  /\ pc(p) = "idle"
  /\ Acquire(p)
  /\ Goto(p, Enter([Idle EXCEPT !.op = "get_age", !.pc = "age_read", !.key = k]))
  /\ UNCHANGED <<cache, hits, misses, max_size, now, lin, touched>>

\* server.py line 225: the tool asks for the age of its key.
AgeAcquire(p) ==
  /\ pc(p) = "age_lock"
  /\ Acquire(p)
  /\ Goto(p, Enter([th[p] EXCEPT !.pc = "age_read"]))
  /\ UNCHANGED <<cache, hits, misses, max_size, now, lin, touched>>

\* Lines 112-115
AgeRead(p) ==
  /\ pc(p) = "age_read"
  /\ Goto(p, [th[p] EXCEPT !.pc = "age_ret", !.tr = now,
                           !.age = get_age(cache, th[p].key, now)])
  /\ lin' = SeqAge(lin, th[p].key, now)
  /\ UNCHANGED <<cache, hits, misses, max_size, lock, now, touched>>

AgeRet(p) ==
  /\ pc(p) = "age_ret"
  /\ Release(p)
  /\ lin' = [lin EXCEPT !.age = NoAge]
  /\ Goto(p, IF th[p].op = "get_age" THEN Idle
             ELSE [Leave(th[p]) EXCEPT !.pc = "tool_page"])
  /\ UNCHANGED <<cache, hits, misses, max_size, now, touched>>

\* ----------------------------------------------------------------- clear
ClearCall(p) ==
  /\ pc(p) = "idle"
  /\ Acquire(p)
  /\ Goto(p, Enter([Idle EXCEPT !.op = "clear", !.pc = "clear_cache"]))
  /\ UNCHANGED <<cache, hits, misses, max_size, now, lin, touched>>

\* Line 120
ClearCache(p) ==
  /\ pc(p) = "clear_cache"
  /\ cache' = <<>>
  /\ lin' = SeqClear(lin)
  /\ Goto(p, [th[p] EXCEPT !.pc = "clear_hits"])
  /\ UNCHANGED <<hits, misses, max_size, lock, now, touched>>

\* Line 121
ClearHits(p) ==
  /\ pc(p) = "clear_hits"
  /\ hits' = 0
  /\ Goto(p, [th[p] EXCEPT !.pc = "clear_misses"])
  /\ UNCHANGED <<cache, misses, max_size, lock, now, lin, touched>>

\* Line 122
ClearMissesSkipped(p) ==
  /\ pc(p) = "clear_misses"
  /\ Goto(p, [th[p] EXCEPT !.pc = "clear_ret"])
  /\ UNCHANGED <<cache, hits, misses, max_size, lock, now, lin, touched>>
ClearMisses(p) ==
  /\ pc(p) = "clear_misses"
  /\ misses' = 0
  /\ Goto(p, [th[p] EXCEPT !.pc = "clear_ret"])
  /\ UNCHANGED <<cache, hits, max_size, lock, now, lin, touched>>

ClearRet(p) ==
  /\ pc(p) = "clear_ret"
  /\ Release(p)
  /\ lin' = [lin EXCEPT !.gets = 0, !.nhit = 0, !.last = {}]
  /\ touched' = <<>>
  /\ Goto(p, Idle)
  /\ UNCHANGED <<cache, hits, misses, max_size, now>>

\* ------------------------------------------------------------- get_stats
StatsCall(p) ==
  /\ pc(p) = "idle"
  /\ Acquire(p)
  /\ Goto(p, Enter([Idle EXCEPT !.op = "get_stats", !.pc = "stats_read"]))
  /\ UNCHANGED <<cache, hits, misses, max_size, now, lin, touched>>

\* Lines 131-140
StatsRead(p) ==
  /\ pc(p) = "stats_read"
  /\ Goto(p, [th[p] EXCEPT !.pc = "stats_ret",
                           !.stats = get_stats(cache, hits, misses)])
  /\ lin' = SeqStats(lin)
  /\ UNCHANGED <<cache, hits, misses, max_size, lock, now, touched>>

StatsRet(p) ==
  /\ pc(p) = "stats_ret"
  /\ Release(p)
  /\ lin' = [lin EXCEPT !.stats = <<0, 0, 0, 0>>]
  /\ Goto(p, Idle)
  /\ UNCHANGED <<cache, hits, misses, max_size, now, touched>>

\* ------------------------------------------------------ server.py tools
\* pagination_utils.py lines 222-225 (table) and 291-292 (dict): the cache
\* line of the rendered page.
CacheLine(dt, age) ==
  IF age # NoAge THEN "cached"
  ELSE IF dt = "table" THEN "fresh" ELSE "none"

\* A tool is called: lines 186-208 build the key and call get_or_set.
ToolCall(p, k) ==
  /\ pc(p) = "idle"
  /\ lin.gets < MaxGets
  /\ Acquire(p)
  /\ Goto(p, Enter([Idle EXCEPT !.op = "tool", !.pc = "get_check", !.key = k]))
  /\ UNCHANGED <<cache, hits, misses, max_size, now, lin, touched>>

\* Lines 232-239: paginate_by_tokens(..., cache_age=cache_age)
ToolPage(p, dt) ==
  /\ pc(p) = "tool_page"
  /\ Goto(p, [th[p] EXCEPT !.pc = "tool_ret", !.line = CacheLine(dt, th[p].age)])
  /\ UNCHANGED <<cache, hits, misses, max_size, lock, now, lin, touched>>

\* Lines 211 and 241: the tool returns its text.
ToolRet(p) ==
  /\ pc(p) = "tool_ret"
  /\ Goto(p, Idle)
  /\ UNCHANGED <<cache, hits, misses, max_size, lock, now, lin, touched>>

\* ------------------------------------ tests/test_pagination.py test_cache
\* Lines 44-51: get_or_set twice with the same key, factory and ttl.
TestCall(p, k, w) ==
  /\ pc(p) = "idle"
  /\ lin.gets < MaxGets
  /\ Acquire(p)
  /\ Goto(p, Enter([Idle EXCEPT !.op = "test", !.pc = "get_check", !.key = k,
                          !.fac = w[1], !.ttl = w[2], !.round = 1]))
  /\ UNCHANGED <<cache, hits, misses, max_size, now, lin, touched>>

TestRet(p) ==
  /\ pc(p) = "test_ret"
  /\ Goto(p, Idle)
  /\ UNCHANGED <<cache, hits, misses, max_size, lock, now, lin, touched>>

\* ------------------------------------------------------------------ specs
\* The steps every caller of the cache takes once inside a call.
CacheSteps(p) ==
  \/ GetCheck(p) \/ GetDel(p) \/ GetMissLoad(p) \/ GetMissStore(p)
  \/ GetTouch(p) \/ GetHitLoad(p) \/ GetHitStore(p) \/ GetRet(p)
  \/ SetAcquire(p) \/ SetEvict(p) \/ SetStore(p) \/ SetMove(p) \/ SetRet(p)
  \/ \E w \in Inputs : FactoryReturn(p, w)
  \/ FactoryRaise(p) \/ GosPropagate(p)
  \/ AgeRead(p) \/ AgeRet(p)
  \/ ClearCache(p) \/ ClearHits(p) \/ ClearMisses(p) \/ ClearRet(p)
  \/ StatsRead(p) \/ StatsRet(p)

\* The public methods of CacheManager.
CacheCalls(p) ==
  \/ \E k \in Keys : GetCall(p, k) \/ AgeCall(p, k) \/ GosCall(p, k)
  \/ \E k \in Keys, w \in Inputs : SetCall(p, k, w)
  \/ ClearCall(p) \/ StatsCall(p)

\* One caller: the public methods, the tools and test_cache.
Next ==
  /\ UNCHANGED <<kb, pg>>
  /\ \/ Tick
     \/ \E p \in Threads :
          \/ CacheCalls(p)
          \/ CacheSteps(p)
          \/ \E k \in Keys : ToolCall(p, k)
          \/ \E k \in Keys, w \in Inputs : TestCall(p, k, w)
          \/ GetAcquire(p) \/ AgeAcquire(p)
          \/ \E dt \in DataTypes : ToolPage(p, dt)
          \/ ToolRet(p) \/ TestRet(p)

Spec == Init /\ [][Next]_vars

\* Two callers of the public methods.
NextConc ==
  /\ UNCHANGED <<kb, pg>>
  /\ \/ Tick
     \/ \E p \in Threads : CacheCalls(p) \/ CacheSteps(p)

SpecConc == InitConc /\ [][NextConc]_vars

\* The tool calls of one caller among the set, get_or_set and clear calls
\* of another.
InitTool == InitConc

ToolSteps(p) ==
  \/ GetCheck(p) \/ GetDel(p) \/ GetMissLoad(p) \/ GetMissStore(p)
  \/ GetTouch(p) \/ GetHitLoad(p) \/ GetHitStore(p) \/ GetRet(p)
  \/ SetAcquire(p) \/ SetEvict(p) \/ SetStore(p) \/ SetMove(p) \/ SetRet(p)
  \/ \E w \in Inputs : FactoryReturn(p, w)
  \/ FactoryRaise(p) \/ GosPropagate(p)
  \/ AgeAcquire(p) \/ AgeRead(p) \/ AgeRet(p)
  \/ \E dt \in DataTypes : ToolPage(p, dt)
  \/ ToolRet(p)
  \/ ClearCache(p) \/ ClearHits(p) \/ ClearMisses(p) \/ ClearRet(p)

NextTool ==
  /\ UNCHANGED <<kb, pg>>
  /\ \/ Tick
     \/ \E p \in Threads : ToolSteps(p)
     \/ \E k \in Keys : ToolCall(1, k)
     \/ \E k \in Keys : GosCall(2, k)
     \/ \E k \in Keys, w \in Inputs : SetCall(2, k, w)
     \/ ClearCall(2)

SpecTool == InitTool /\ [][NextTool]_vars

\* ------------------------------------------------- calls of _generate_key
\* Two calls, as two call sites of server.py make them.
InitKey ==
  /\ max_size = 1
  /\ th = [p \in {1} |-> Idle]
  /\ cache = <<>>
  /\ hits = 0
  /\ misses = 0
  /\ lock = NoOne
  /\ now = 0
  /\ lin = LinInit
  /\ touched = <<>>
  /\ \E f \in FuncNames, g \in FuncNames, a \in Kwargs, b \in Kwargs :
       kb = [KbIdle EXCEPT !.pc = "start", !.f1 = f, !.a1 = a, !.f2 = g,
                           !.a2 = b]
  /\ pg = PgIdle

KeyFirst ==
  /\ kb.pc = "start"
  /\ kb' = [kb EXCEPT !.pc = "first", !.k1 = generate_key(kb.f1, kb.a1)]
  /\ UNCHANGED <<cvars, pg>>

KeySecond ==
  /\ kb.pc = "first"
  /\ kb' = [kb EXCEPT !.pc = "both", !.k2 = generate_key(kb.f2, kb.a2)]
  /\ UNCHANGED <<cvars, pg>>

NextKey == KeyFirst \/ KeySecond

SpecKey == InitKey /\ [][NextKey]_vars

\* ------------------------------------------- calls of paginate_by_tokens
\* One call of either implementation on a dataset, a requested page, a
\* token budget and a cache age.  pg.page is the local variable page, which
\* line 176 overwrites; pg.req keeps the argument as it was passed.
InitPage ==
  /\ max_size = 1
  /\ th = [p \in {1} |-> Idle]
  /\ cache = <<>>
  /\ hits = 0
  /\ misses = 0
  /\ lock = NoOne
  /\ now = 0
  /\ lin = LinInit
  /\ touched = <<>>
  /\ kb = KbIdle
  /\ \E i \in Impls, d \in Datasets, n \in Pages, t \in MaxTokens,
        a \in CacheAges :
       pg = [PgIdle EXCEPT !.pc = "start", !.impl = i, !.data = d,
                           !.req = n, !.page = n, !.max_tokens = t,
                           !.cache_age = a]

\* pagination_utils.py lines 154-155, yfin_mcp lines 139-140: the data is
\* no DataFrame, list or dict and ValueError is raised.
PgUnsupported ==
  /\ pg.pc = "start"
  /\ pg.data.kind = "other"
  /\ pg' = [pg EXCEPT !.pc = "raised"]
  /\ UNCHANGED <<cvars, kb>>

\* pagination_utils.py lines 143-158 and 254-255, yfin_mcp lines 142-149:
\* no item, no sizing.
PgEmpty ==
  /\ pg.pc = "start"
  /\ pg.data.kind # "other"
  /\ pg.data.items = <<>>
  /\ pg' = [pg EXCEPT !.pc = "done", !.res = EmptyResult(pg.impl)]
  /\ UNCHANGED <<cvars, kb>>

\* pagination_utils.py lines 160-172 and 257-262
PgFixedSize ==
  /\ pg.pc = "start"
  /\ pg.impl = "fixed"
  /\ pg.data.items # <<>>
  /\ pg' = [pg EXCEPT !.pc = "paging",
                      !.items_per_page =
                        FixedItemsPerPage(pg.data, pg.max_tokens)]
  /\ UNCHANGED <<cvars, kb>>

\* yfin_mcp lines 153-154
PgAdaptiveStart ==
  /\ pg.pc = "start"
  /\ pg.impl = "adaptive"
  /\ pg.data.items # <<>>
  /\ pg' = [pg EXCEPT !.pc = "size_test",
                      !.items_per_page = Len(pg.data.items)]
  /\ UNCHANGED <<cvars, kb>>

\* yfin_mcp lines 156-170: one formatting pass and its test.  passes counts
\* them up to MaxPasses.
PgSizeTest ==
  /\ pg.pc = "size_test"
  /\ pg' = [pg EXCEPT
              !.passes = Min(@ + 1, MaxPasses),
              !.pc = IF UnderMargin(pg.impl, pg.data, pg.items_per_page,
                                    pg.max_tokens)
                       THEN "paging" ELSE "size_halve"]
  /\ UNCHANGED <<cvars, kb>>

\* yfin_mcp line 173, and back to line 156
PgSizeHalve ==
  /\ pg.pc = "size_halve"
  /\ pg' = [pg EXCEPT !.pc = "size_test",
                      !.items_per_page = Max(1, @ \div 2)]
  /\ UNCHANGED <<cvars, kb>>

\* Lines 175-179 (pagination_utils.py), 264-268, 176-180 (yfin_mcp)
PgPaging ==
  /\ pg.pc = "paging"
  /\ LET total_items == Len(pg.data.items)
         total_pages == TotalPages(total_items, pg.items_per_page)
         page == Clamp(pg.page, total_pages)
         start_idx == (page - 1) * pg.items_per_page
     IN pg' = [pg EXCEPT !.pc = "render", !.page = page,
                         !.total_pages = total_pages,
                         !.start_idx = start_idx,
                         !.end_idx = Min(start_idx + pg.items_per_page,
                                         total_items)]
  /\ UNCHANGED <<cvars, kb>>

\* The page is formatted and the PaginationResult returned: lines 181-239
\* and 270-305 (pagination_utils.py), 182-235 (yfin_mcp).  items_on_page is
\* len(page_df) or len(page_items) there and end_idx - start_idx here.
PgRender ==
  /\ pg.pc = "render"
  /\ pg' = [pg EXCEPT
       !.pc = "done",
       !.res = [page |-> pg.page,
                total_pages |-> pg.total_pages,
                total_items |-> Len(pg.data.items),
                items_on_page |->
                  IF pg.impl = "fixed"
                    THEN Len(Slice(pg.data.items, pg.start_idx, pg.end_idx))
                    ELSE pg.end_idx - pg.start_idx,
                start_idx |-> pg.start_idx,
                end_idx |-> pg.end_idx,
                text_len |-> TextLen(pg.impl, pg.data, pg.max_tokens,
                                     pg.cache_age, pg.page, pg.total_pages,
                                     pg.start_idx, pg.end_idx,
                                     pg.items_per_page),
                marker |-> FALSE,
                footer |-> <<pg.start_idx + 1, pg.end_idx, Len(pg.data.items)>>,
                nav |-> NavOf(pg.impl, pg.data.kind, pg.page, pg.total_pages),
                cache_line |-> CacheInfo(pg.impl, pg.data.kind, pg.cache_age)]]
  /\ UNCHANGED <<cvars, kb>>

NextPage ==
  \/ PgUnsupported
  \/ PgEmpty \/ PgFixedSize \/ PgAdaptiveStart \/ PgSizeTest \/ PgSizeHalve
  \/ PgPaging \/ PgRender

SpecPage == InitPage /\ [][NextPage]_vars

\* The calls for page 1 with no cache age.
InitPageOne ==
  /\ InitPage
  /\ pg.req = 1
  /\ pg.cache_age = NoAge

\* paginate_by_tokens is a sequential function: it keeps executing until it
\* returns.
SpecPageFair == InitPageOne /\ [][NextPage]_vars /\ WF_vars(NextPage)

\* A reader follows the hint "Next page: Use page={page + 1}"
\* (pagination_utils.py lines 208-211): the same dataset and max_tokens are
\* paginated again for the next page.  pg.walk keeps the pages returned so
\* far.
PgNextPage ==
  /\ pg.pc = "done"
  /\ pg.res.total_items > 0
  /\ pg.res.page < pg.res.total_pages
  /\ pg' = [pg EXCEPT !.pc = "start", !.req = pg.res.page + 1,
                      !.page = pg.res.page + 1, !.items_per_page = 0,
                      !.passes = 0, !.total_pages = 0, !.start_idx = 0,
                      !.end_idx = 0, !.res = NoResult,
                      !.walk = Append(@, pg.res)]
  /\ UNCHANGED <<cvars, kb>>

NextWalk == NextPage \/ PgNextPage

\* Page 1 is asked for, then every next page.
SpecWalk == InitPageOne /\ [][NextWalk]_vars

\* ----------------------------------------------------------- properties
KeySeq(c) == [i \in 1..Len(c) |-> c[i].k]
KeySet(c) == {c[i].k : i \in 1..Len(c)}

\* The pcs at which the calling thread is inside `with self._lock:`.
CritPcs ==
  {"get_check", "get_del", "get_miss_ld", "get_miss_st", "get_touch",
   "get_hit_ld", "get_hit_st", "get_ret", "set_evict", "set_store",
   "set_move", "set_ret", "age_read", "age_ret", "clear_cache", "clear_hits",
   "clear_misses", "clear_ret", "stats_read", "stats_ret"}

\* C1: the store never holds more than max_size entries, in any state of
\* any interleaving of the public methods, the states inside a set
\* included: set evicts before it inserts.
C1_SizeBound == Len(cache) <= max_size

\* A set on a new key at capacity has evicted and not yet inserted.
C1_Witness ==
  \E p \in Threads :
    /\ pc(p) = "set_store"
    /\ Len(th[p].pre.cache) = max_size
    /\ Len(cache) = max_size - 1

\* C2: get takes the miss path exactly when the key is absent or its entry
\* has now - insertedAt > ttl; it returns an entry's value only when the
\* ttl has not elapsed; a get that finds an expired entry removes it, so
\* the size get_stats reports drops by one, and counts one miss, no hit.
C2_ExpiredIsMiss ==
  \A p \in Threads :
    pc(p) = "get_ret" =>
      LET k == th[p].key
          e0 == Entry(th[p].pre.cache, k)
          gone == th[p].res \in {"absent", "expired"}
      IN /\ th[p].res = "absent" <=> ~Has(th[p].pre.cache, k)
         /\ th[p].res = "expired" =>
              /\ Has(th[p].pre.cache, k)
              /\ th[p].tr - e0.ts > e0.ttl
              /\ get_stats(cache, hits, misses)[1] = Len(th[p].pre.cache) - 1
         /\ th[p].res = "hit" =>
              /\ Has(th[p].pre.cache, k)
              /\ ~(th[p].tr - e0.ts > e0.ttl)
              /\ th[p].val = e0.v
         /\ gone =>
              /\ th[p].val = None
              /\ ~Has(cache, k)
              /\ misses = th[p].pre.misses + 1
              /\ hits = th[p].pre.hits

\* A get has found an entry whose ttl has elapsed.
C2_Witness ==
  \E p \in Threads :
    /\ pc(p) = "get_ret"
    /\ th[p].res = "expired"
    /\ Entry(th[p].pre.cache, th[p].key).v # None

\* C3: a set on a key not in the store, when the store holds max_size
\* entries, removes exactly one entry, the least recently touched one, and
\* leaves every other entry as it was.
C3_EvictsLeastRecentlyTouched ==
  \A p \in Threads :
    (/\ pc(p) = "set_ret"
     /\ ~Has(th[p].pre.cache, th[p].key)
     /\ Len(th[p].pre.cache) = max_size) =>
      /\ touched # <<>>
      /\ Len(cache) = max_size
      /\ KeySet(cache) =
           (KeySet(th[p].pre.cache) \ {Head(touched)}) \cup {th[p].key}
      /\ \A x \in KeySet(th[p].pre.cache) \ {Head(touched)} :
           Entry(cache, x) = Entry(th[p].pre.cache, x)

\* max_size + 1 = 3 keys have been inserted into a store of capacity 2.
C3_Witness ==
  \E p \in Threads :
    /\ pc(p) = "set_ret"
    /\ max_size = 2
    /\ ~Has(th[p].pre.cache, th[p].key)
    /\ Len(th[p].pre.cache) = max_size
    /\ ~Has(cache, th[p].pre.cache[1].k)
    /\ Has(cache, th[p].pre.cache[2].k)

\* C4: a successful get moves its key to the most recently used end and
\* keeps the order of the others, so the store's order is the order of
\* last touch (by set or by successful get) and the next eviction skips
\* the key that was read.
C4_GetTouches ==
  /\ \A p \in Threads :
       (pc(p) = "get_ret" /\ th[p].res = "hit") =>
         cache = Append(Remove(th[p].pre.cache, th[p].key),
                        Entry(th[p].pre.cache, th[p].key))
  /\ lock = NoOne => KeySeq(cache) = touched

\* A set evicts an entry that was inserted after the one it keeps: the
\* older one had been read in between.
C4_Witness ==
  \E p \in Threads :
    /\ pc(p) = "set_ret"
    /\ max_size = 2
    /\ ~Has(th[p].pre.cache, th[p].key)
    /\ Len(th[p].pre.cache) = max_size
    /\ th[p].pre.cache[2].ts < th[p].pre.cache[1].ts
    /\ ~Has(cache, th[p].pre.cache[1].k)
    /\ Has(cache, th[p].pre.cache[2].k)

\* C5 (as claimed): when test_cache's first get_or_set called the factory
\* and the ttl cannot have elapsed, both calls return the factory's result,
\* the factory was called exactly once and the second call reports cached.
C5_SecondCallIsCached ==
  \A p \in Threads :
    (pc(p) = "test_ret" /\ ~th[p].cached1 /\ th[p].ttl >= now) =>
      /\ th[p].val1 = th[p].fac
      /\ th[p].val = th[p].fac
      /\ th[p].ncalls = 1
      /\ th[p].cached

C7_FetchedPageIsFresh ==
  \A p \in Threads :
    (pc(p) = "tool_ret" /\ th[p].line # "not_found" /\ ~th[p].cached) =>
      th[p].line = "fresh"

\* C8: at the end of every set, of a get_or_set that lost a race on its
\* key included, the store holds exactly one entry for the key, and its
\* value, timestamp and ttl are all those of this set.
C8_LastSetWins ==
  \A p \in Threads :
    pc(p) = "set_ret" =>
      /\ Cardinality({i \in 1..Len(cache) : cache[i].k = th[p].key}) = 1
      /\ Entry(cache, th[p].key) =
           [k |-> th[p].key, v |-> th[p].val, ts |-> th[p].tr,
            ttl |-> th[p].ttl]

\* Two get_or_set calls missed on the same key; the other one has stored
\* its entry and this one has just replaced it with a different one.
C8_Witness ==
  \E p \in Threads :
    /\ pc(p) = "set_ret"
    /\ th[p].op = "get_or_set"
    /\ th[p].dirty
    /\ Has(th[p].pre.cache, th[p].key)
    /\ Entry(th[p].pre.cache, th[p].key).v # th[p].val
    /\ Entry(th[p].pre.cache, th[p].key).ts # th[p].tr

\* C9: whenever the lock is free the store and the counters are those of
\* the same calls run one at a time in the order they took the lock, every
\* call returns what that sequential run returns, and hits + misses is the
\* number of get calls completed since the last clear.
C9_Linearizable ==
  /\ lock = NoOne =>
       /\ cache = lin.cache
       /\ hits = lin.hits
       /\ misses = lin.misses
       /\ hits + misses = lin.gets
  /\ \A p \in Threads :
       /\ pc(p) \in {"get_ret", "set_ret", "clear_ret", "age_ret", "stats_ret"} =>
            cache = lin.cache /\ hits = lin.hits /\ misses = lin.misses
       /\ pc(p) = "get_ret" => th[p].val = lin.val
       /\ pc(p) = "age_ret" => th[p].age = lin.age
       /\ pc(p) = "stats_ret" => th[p].stats = lin.stats

\* A get completes its hit while another caller's get_or_set waits to set.
C9_Witness ==
  \E p, q \in Threads :
    /\ p # q
    /\ pc(p) = "get_ret"
    /\ th[p].res = "hit"
    /\ pc(q) = "set_lock"
    /\ hits + misses = 2

\* C10: when clear returns the store is empty and both counters are 0, and
\* while a clear is between emptying the store and resetting the counters
\* no other caller is inside a method of the cache.
C10_ClearAtomic ==
  \A p \in Threads :
    /\ pc(p) = "clear_ret" => cache = <<>> /\ hits = 0 /\ misses = 0
    /\ pc(p) \in {"clear_hits", "clear_misses", "clear_ret"} =>
         \A q \in Threads \ {p} : pc(q) \notin CritPcs

\* A clear of a used store completes while another caller's get_or_set is
\* between its get and its set.
C10_Witness ==
  \E p, q \in Threads :
    /\ p # q
    /\ pc(p) = "clear_ret"
    /\ th[p].pre.cache # <<>>
    /\ th[p].pre.hits > 0
    /\ th[p].pre.misses > 0
    /\ pc(q) \in {"gos_factory", "set_lock"}

\* C11: get_stats reports as hits the number of gets since creation or the
\* last clear that returned from the hit branch and as misses the number of
\* the others, its hit rate is hits / (hits + misses) to the printed
\* precision, 0 when there was no get, and it changes neither counter.
C11_StatsAccounting ==
  \A p \in Threads :
    pc(p) = "stats_ret" =>
      LET H == lin.nhit
          N == lin.gets
          rate == th[p].stats[4]
          err == rate * N - 10000 * H
      IN /\ th[p].stats[2] = H
         /\ th[p].stats[3] = N - H
         /\ N = 0 => rate = 0
         /\ N > 0 => 2 * err <= N /\ -2 * err <= N
         /\ hits = th[p].pre.hits
         /\ misses = th[p].pre.misses

\* get_stats after one hit and one miss.
C11_Witness ==
  \E p \in Threads :
    /\ pc(p) = "stats_ret"
    /\ lin.nhit = 1
    /\ lin.gets = 2
    /\ th[p].stats[4] = 5000

\* C12: a set on a key that is in the store evicts nothing and leaves the
\* number of entries as it was, at max_size too: the other entries keep
\* their content and order, and the key's entry, now the most recently
\* used, has this set's value, timestamp and ttl.
C12_OverwriteKeepsOthers ==
  \A p \in Threads :
    (pc(p) = "set_ret" /\ Has(th[p].pre.cache, th[p].key)) =>
      /\ Len(cache) = Len(th[p].pre.cache)
      /\ Remove(cache, th[p].key) = Remove(th[p].pre.cache, th[p].key)
      /\ cache[Len(cache)] =
           [k |-> th[p].key, v |-> th[p].val, ts |-> th[p].tr,
            ttl |-> th[p].ttl]

\* A full store of two entries whose least recently used key is set again,
\* with another value, timestamp and ttl.
C12_Witness ==
  \E p \in Threads :
    /\ pc(p) = "set_ret"
    /\ max_size = 2
    /\ Len(th[p].pre.cache) = 2
    /\ th[p].pre.cache[1].k = th[p].key
    /\ th[p].pre.cache[1].v # th[p].val
    /\ th[p].pre.cache[1].ts # th[p].tr
    /\ th[p].pre.cache[1].ttl # th[p].ttl

\* C13: lin.last holds, for every key, the (value, time, ttl) of its most
\* recent set, until the key is evicted, found expired or cleared.  A get of
\* a key whose most recent set is still there and whose ttl has not elapsed
\* returns exactly that set's value.
C13_RoundTrip ==
  \A p \in Threads :
    pc(p) = "get_ret" =>
      \A x \in lin.last :
        (x.k = th[p].key /\ th[p].tr - x.ts <= x.ttl) =>
          th[p].res = "hit" /\ th[p].val = x.v

\* A get, one time unit after the key's most recent set and within its
\* ttl, has returned the value of that set.
C13_Witness ==
  \E p \in Threads :
    /\ pc(p) = "get_ret"
    /\ th[p].op = "get"
    /\ \E x \in lin.last :
         /\ x.k = th[p].key
         /\ th[p].tr - x.ts = 1
         /\ x.ttl = 1
         /\ th[p].val = x.v
         /\ x.v = "b"

\* The name-to-value mapping of keyword arguments, and the same with every
\* value in its string form.
Mapping(kw) == {kw[i] : i \in 1..Len(kw)}
StrMapping(kw) == {<<kw[i][1], Str(kw[i][2])>> : i \in 1..Len(kw)}

\* C14: _generate_key gives the same key for the same function name and the
\* same name-to-value mapping of the arguments, in whatever order the
\* caller wrote them.
C14_KeyOrderIndependent ==
  (kb.pc = "both" /\ kb.f1 = kb.f2 /\ Mapping(kb.a1) = Mapping(kb.a2)) =>
    kb.k1 = kb.k2

\* The same two arguments written in the two possible orders.
C14_Witness ==
  /\ kb.pc = "both"
  /\ kb.f1 = kb.f2
  /\ Len(kb.a1) = 2
  /\ kb.a1 # kb.a2
  /\ Mapping(kb.a1) = Mapping(kb.a2)
  /\ kb.k1 = kb.k2

\* C15 (as claimed): two calls that differ in the function name, in an
\* argument name or in the string form of an argument value get different
\* keys.
C15_KeyInjective ==
  (/\ kb.pc = "both"
   /\ \/ kb.f1 # kb.f2
      \/ StrMapping(kb.a1) # StrMapping(kb.a2)) =>
    kb.k1 # kb.k2

\* C16 (as claimed): every call on a non-empty dataset with a token budget
\* above 0, the datasets whose single items exceed the budget included,
\* comes to return a page, sized with items_per_page >= 1, that holds at
\* least one item.
C16_PageHoldsAnItem ==
  (pg.pc = "start" /\ pg.data.items # <<>> /\ pg.max_tokens > 0) ~>
    (pg.pc = "done" /\ pg.items_per_page >= 1 /\ pg.res.items_on_page >= 1)

\* C17 (as claimed): for any dataset and max_tokens, on every page and for
\* tables, lists and key-value data alike, the returned text is estimated
\* at no more than max_tokens tokens unless the page holds exactly one item.
C17_BudgetRespected ==
  (pg.pc = "done" /\ pg.res.total_items > 0) =>
    \/ estimate_tokens(pg.res.text_len) <= pg.max_tokens
    \/ pg.res.items_on_page = 1

\* C18: the requested page number is clamped into 1..total_pages: a request
\* of 0 or less returns page 1, a request beyond total_pages returns page
\* total_pages, any other request returns the page asked for, and the page
\* returned for a non-empty dataset is in range and holds an item.
C18_PageClamped ==
  (pg.pc = "done" /\ pg.data.items # <<>>) =>
    /\ pg.req <= 0 => pg.res.page = 1
    /\ pg.req > pg.res.total_pages => pg.res.page = pg.res.total_pages
    /\ pg.req \in 1..pg.res.total_pages => pg.res.page = pg.req
    /\ pg.res.page \in 1..pg.res.total_pages
    /\ pg.res.start_idx = (pg.res.page - 1) * pg.items_per_page
    /\ pg.res.start_idx < pg.res.total_items
    /\ pg.res.items_on_page >= 1

\* Page 1000000 of a 3-page result was asked for and page 3 returned.
C18_Witness ==
  /\ pg.pc = "done"
  /\ pg.req = 1000000
  /\ pg.res.total_pages = 3
  /\ pg.res.page = 3
  /\ pg.res.items_on_page = 1

\* C19: paginating an empty table, list or mapping returns total_items = 0,
\* total_pages = 1, page 1, items_on_page = 0 and the "No data available"
\* text, and the page-sizing strategy is not run: no page size is computed
\* and no formatting pass is made.
C19_EmptyDataset ==
  (pg.pc = "done" /\ pg.data.items = <<>>) =>
    /\ pg.res.total_items = 0
    /\ pg.res.total_pages = 1
    /\ pg.res.page = 1
    /\ pg.res.items_on_page = 0
    /\ pg.res.marker
    /\ pg.res.text_len = IF pg.impl = "fixed" THEN 226 + TitleLen ELSE 17
    /\ pg.items_per_page = 0
    /\ pg.passes = 0

\* An empty mapping was paginated by the adaptive strategy, page 2 asked for.
C19_Witness ==
  /\ pg.pc = "done"
  /\ pg.data.items = <<>>
  /\ pg.data.kind = "dict"
  /\ pg.impl = "adaptive"
  /\ pg.req = 2
  /\ pg.res.marker

\* C20 (as claimed): every non-empty page, of a table, a list or key-value
\* data, carries navigation hints: the previous-page hint exactly when
\* page > 1 and the next-page hint exactly when page < total_pages.
C20_NavigationHints ==
  (pg.pc = "done" /\ pg.data.items # <<>>) =>
    /\ pg.res.nav.prev <=> pg.res.page > 1
    /\ pg.res.nav.next <=> pg.res.page < pg.res.total_pages

\* C21 (as claimed): every non-empty page, of a table, a list or key-value
\* data, has a cache line: it says "fresh" exactly when no cache age was
\* passed, and otherwise shows the age that was passed, to one decimal.
C21_CacheLine ==
  (pg.pc = "done" /\ pg.data.items # <<>>) =>
    /\ pg.res.cache_line.kind # "none"
    /\ pg.res.cache_line.kind = "fresh" <=> pg.cache_age = NoAge
    /\ pg.cache_age # NoAge =>
         /\ pg.res.cache_line.shown = pg.cache_age
         /\ pg.res.cache_line.len = 36 + NumLen(pg.cache_age \div 10) + 2

\* C22 (as claimed): paginate_by_tokens returns a PaginationResult only for
\* a DataFrame, a list or a dict and a max_tokens above 0; for any other
\* data and for max_tokens <= 0 it raises and produces no result.
C22_InvalidArgument ==
  /\ pg.pc = "done" => pg.data.kind # "other" /\ pg.max_tokens > 0
  /\ pg.pc = "raised" =>
       /\ pg.data.kind = "other" \/ pg.max_tokens <= 0
       /\ pg.res = NoResult

\* floor(log2(n)) for n >= 1
RECURSIVE Log2(_)
Log2(n) == IF n <= 1 THEN 0 ELSE 1 + Log2(n \div 2)

\* C23 (as claimed): the sizing loop of the adaptive strategy, entered with
\* items_per_page = total_items, is left after at most
\* floor(log2(total_items)) + 1 formatting passes, whatever the dataset and
\* the max_tokens above 0, a single item beyond 0.8 * max_tokens included.
C23_SizingTerminates ==
  (pg.pc = "size_test" /\ pg.passes = 0 /\ pg.max_tokens > 0) ~>
    (pg.pc = "paging" /\ pg.passes <= Log2(Len(pg.data.items)) + 1)

\* C24: while the factory of a get_or_set is running, that caller does not
\* hold the lock: the lock is free, and every other caller that wants it
\* can take it, or it is held by another caller that is inside a method
\* and can run it to its end.  No other caller waits for the factory.
C24_FactoryOutsideLock ==
  \A p \in Threads :
    pc(p) = "gos_factory" =>
      /\ lock # p
      /\ \A q \in Threads \ {p} :
           /\ pc(q) \in CritPcs => lock = q
           /\ pc(q) \notin CritPcs => lock = NoOne

\* While one caller's factory is running, another caller has taken the lock
\* after that caller's get, has cleared the store and is about to return.
C24_Witness ==
  \E p, q \in Threads :
    /\ p # q
    /\ pc(p) = "gos_factory"
    /\ pc(q) = "clear_ret"
    /\ th[q].pre.misses > 0
    /\ lock = q

\* C25: for a non-empty dataset the page size is at least 1, total_pages is
\* ceil(total_items / items_per_page), the returned page starts at index
\* (page - 1) * items_per_page and ends at
\* min(start + items_per_page, total_items), for the clamped page, it holds
\* end - start items, and its footer reads "items start+1-end of
\* total_items".
C25_PageArithmetic ==
  (pg.pc = "done" /\ pg.data.items # <<>>) =>
    LET ipp == pg.items_per_page
        total == Len(pg.data.items)
        r == pg.res
    IN /\ ipp >= 1
       /\ r.total_items = total
       /\ (r.total_pages - 1) * ipp < total
       /\ total <= r.total_pages * ipp
       /\ r.page = Clamp(pg.req, r.total_pages)
       /\ r.start_idx = (r.page - 1) * ipp
       /\ r.end_idx = Min(r.start_idx + ipp, total)
       /\ r.items_on_page = r.end_idx - r.start_idx
       /\ r.footer = <<r.start_idx + 1, r.end_idx, total>>

\* 3 items at 2 per page: page 2 is the last page and shows item 3 of 3.
C25_Witness ==
  /\ pg.pc = "done"
  /\ Len(pg.data.items) = 3
  /\ pg.items_per_page = 2
  /\ pg.req = 2
  /\ pg.res.total_pages = 2
  /\ pg.res.footer = <<3, 3, 3>>
  /\ pg.res.items_on_page = 1

\* C26: get_or_set goes on to its factory exactly when its get returned
\* None, a hit on an unexpired entry whose value is None included: that get
\* counts a hit and returns None.  A None that the factory returns is
\* stored as the key's entry, within max_size.  So in test_cache with a
\* factory that returns None, when the first call invoked the factory the
\* second invokes it again and reports was_cached = False too.
C26_NoneIsRefetched ==
  [][\A p \in Threads :
       /\ (pc(p) = "get_ret" /\ th[p].op # "get" /\ th'[p] # th[p]) =>
            (th'[p].pc = "gos_factory" <=> th[p].val = None)
       /\ (/\ pc(p) = "get_ret"
           /\ th[p].res = "hit"
           /\ Entry(th[p].pre.cache, th[p].key).v = None) =>
            /\ th[p].val = None
            /\ hits = th[p].pre.hits + 1
            /\ misses = th[p].pre.misses
       /\ (pc(p) = "set_ret" /\ th[p].op # "set" /\ th[p].val = None) =>
            /\ Has(cache, th[p].key)
            /\ Entry(cache, th[p].key).v = None
            /\ Len(cache) <= max_size
       /\ (pc(p) = "test_ret" /\ th[p].fac = None /\ ~th[p].cached1) =>
            /\ th[p].ncalls = 2
            /\ ~th[p].cached]_vars

\* test_cache with a factory that returns None: the second get_or_set has
\* counted a hit on the stored None and has called the factory again.
C26_Witness ==
  \E p \in Threads :
    /\ pc(p) = "test_ret"
    /\ th[p].fac = None
    /\ ~th[p].cached1
    /\ th[p].ncalls = 2
    /\ hits >= 1
    /\ Has(cache, th[p].key)
    /\ Entry(cache, th[p].key).v = None
    /\ ~th[p].cached

\* C27: for a dataset and a max_tokens, the pages 1..total_pages, asked for
\* one after the other, report the same total_pages and total_items, and
\* their item ranges are non-empty, start at item 1, each begin where the
\* one before ended and end at item total_items: every item is on exactly
\* one page and the items_on_page add up to total_items.
C27_PagesPartition ==
  (pg.pc = "done" /\ pg.res.total_items > 0
                  /\ Len(pg.walk) = pg.res.total_pages - 1) =>
    LET all == Append(pg.walk, pg.res)
        n == Len(all)
        total == Len(pg.data.items)
    IN /\ \A i \in 1..n :
            /\ all[i].page = i
            /\ all[i].total_pages = n
            /\ all[i].total_items = total
            /\ all[i].start_idx < all[i].end_idx
            /\ all[i].items_on_page = all[i].end_idx - all[i].start_idx
            /\ all[i].start_idx = IF i = 1 THEN 0 ELSE all[i - 1].end_idx
       /\ all[n].end_idx = total
       /\ \A j \in 1..total :
            Cardinality({i \in 1..n : all[i].start_idx < j
                                      /\ j <= all[i].end_idx}) = 1
       /\ SeqSum([i \in 1..n |-> all[i].items_on_page]) = total

\* The two pages of 3 items at 2 per page have been returned.
C27_Witness ==
  /\ pg.pc = "done"
  /\ Len(pg.data.items) = 3
  /\ pg.items_per_page = 2
  /\ Len(pg.walk) = 1
  /\ pg.res.page = 2
  /\ pg.res.total_pages = 2
  /\ pg.walk[1].items_on_page = 2
  /\ pg.res.items_on_page = 1

\* C28 (as claimed): the cache age a tool call hands to paginate_by_tokens
\* is the age, at the time of its get_age, of the entry its value came
\* from, whatever other callers do in between; it is never the age of
\* another entry for the key and never absent.
C28_AgeOfRenderedEntry ==
  \A p \in Threads :
    (pc(p) = "age_ret" /\ th[p].op = "tool") =>
      /\ th[p].age # NoAge
      /\ th[p].age = th[p].tr - th[p].src

\* C29: an entry leaves the store only in a get on its own key that finds
\* it expired, in the eviction of a set or in a clear; the passing of time
\* removes nothing, and get_stats counts expired entries in its size.  A
\* set on a new key at max_size evicts the least recently used entry and
\* keeps all the others, whichever of them have expired.
C29_ExpiredEntriesStay ==
  [][/\ \A k \in KeySet(cache) \ KeySet(cache') :
          \E p \in Threads :
            \/ pc(p) = "get_del" /\ th[p].key = k
                                 /\ Expired(Entry(cache, k), th[p].tr)
            \/ pc(p) = "set_evict" /\ k = cache[1].k
            \/ pc(p) = "clear_cache"
     /\ \A p \in Threads :
          /\ pc(p) = "stats_ret" => th[p].stats[1] = Len(cache)
          /\ (/\ pc(p) = "set_ret"
              /\ ~Has(th[p].pre.cache, th[p].key)
              /\ Len(th[p].pre.cache) = max_size) =>
               /\ ~Has(cache, th[p].pre.cache[1].k)
               /\ \A i \in 2..max_size :
                    Entry(cache, th[p].pre.cache[i].k) = th[p].pre.cache[i]]_vars

\* A set on a new key into a full store has evicted the least recently
\* used entry, whose ttl had not elapsed, and kept an entry whose ttl had.
C29_Witness ==
  \E p \in Threads :
    /\ pc(p) = "set_ret"
    /\ max_size = 2
    /\ Len(th[p].pre.cache) = 2
    /\ ~Has(th[p].pre.cache, th[p].key)
    /\ ~Expired(th[p].pre.cache[1], th[p].tr)
    /\ Expired(th[p].pre.cache[2], th[p].tr)
    /\ ~Has(cache, th[p].pre.cache[1].k)
    /\ Has(cache, th[p].pre.cache[2].k)

\* C30: get_age(key) is a pure read.  When it returns, the entries, their
\* order and the hit and miss counters are what they were when it was
\* called; it returns None exactly when the key is absent, and for a
\* present key the time elapsed since the entry was inserted, whether or
\* not the entry's ttl has elapsed.
C30_GetAgePureRead ==
  \A p \in Threads :
    pc(p) = "age_ret" =>
      /\ cache = th[p].pre.cache
      /\ hits = th[p].pre.hits
      /\ misses = th[p].pre.misses
      /\ (th[p].age = NoAge) <=> ~Has(cache, th[p].key)
      /\ Has(cache, th[p].key) =>
           th[p].age = th[p].tr - Entry(cache, th[p].key).ts

\* get_age has returned the age of an entry whose ttl had elapsed, with a
\* more recently used entry behind it, and the entry is still there.
C30_Witness ==
  \E p \in Threads :
    /\ pc(p) = "age_ret"
    /\ Len(cache) = 2
    /\ cache[1].k = th[p].key
    /\ Expired(cache[1], th[p].tr)
    /\ th[p].age > cache[1].ttl
    /\ cache = th[p].pre.cache
====
